---- MODULE Spec2Model ----
(***************************************************************************)
(* Model of the inbound-message reply engine (src/main.py, src/db.py,      *)
(* src/emailer.py).  Text is modelled at character level: a text is a      *)
(* string, Len/SubSeq/\o are Python's len, slicing and concatenation.      *)
(* The typographic apostrophe and dash of the canned replies are written   *)
(* as ' and - (one character each, so every length is unchanged).          *)
(***************************************************************************)
EXTENDS Integers, Sequences, FiniteSets, TLC

VARIABLES
    client,     \* main.py:24   TRUE iff an OpenAI client was configured
    messages,   \* db.py:18-28  the rows of table messages, in id order
    alerts,     \* main.py:208  the calls made to send_handoff_email
    resp,       \* main.py:264  what the latest inbound() call did
    npc,        \* text normalizer check: "in", "once", "twice"
    nx, ny, nz, \* an input text, enforce_length of it, and enforce_length again
    handlers,   \* main.py:264  the inbound() calls in flight, one per slot
    served      \* per row of messages: what the inbound() call that wrote it read

vars == <<client, messages, alerts, resp, npc, nx, ny, nz, handlers, served>>

\* ------------------------------------------------------------------ bounds
MaxMessages == 2    \* rows the store may hold
MaxConcMessages == 3 \* requests received, when handlers run concurrently
MaxTail == 3        \* characters appended after the padding of a long text
PadSlack == 4       \* the padding is MaxLenDefault - PadSlack .. MaxLenDefault long

\* main.py:123  max_len: int = 240
MaxLenDefault == 240
\* main.py:301  len(incoming) < 3
ShortLen == 3
\* main.py:184  len(t.split()) <= 5
MaxDateWords == 5
\* main.py:163  len(non_num) >= 2
MinNonNum == 2
\* main.py:294  len(incoming.split()) >= 2
MinFollowupWords == 2

\* ------------------------------------------------------- characters, str
Char(s, i) == SubSeq(s, i, i)

Digit == {"0", "1", "2", "3", "4", "5", "6", "7", "8", "9"}
UpperLetters == <<"A", "B", "C", "D", "E", "F", "G", "H", "I", "J", "K", "L", "M",
                  "N", "O", "P", "Q", "R", "S", "T", "U", "V", "W", "X", "Y", "Z">>
LowerLetters == <<"a", "b", "c", "d", "e", "f", "g", "h", "i", "j", "k", "l", "m",
                  "n", "o", "p", "q", "r", "s", "t", "u", "v", "w", "x", "y", "z">>
Letter == {UpperLetters[k] : k \in DOMAIN UpperLetters}
            \cup {LowerLetters[k] : k \in DOMAIN LowerLetters}

\* regex \s and str.strip()/str.split() whitespace
IsSpace(c) == c \in {" ", "\t", "\n", "\r"}
\* regex \w
IsWord(c) == c \in Letter \/ c \in Digit \/ c = "_"
\* regex \d
IsDigit(c) == c \in Digit

Min(a, b) == IF a <= b THEN a ELSE b

\* str.lower()
LowerChar(c) ==
    IF \E k \in DOMAIN UpperLetters : UpperLetters[k] = c
    THEN LowerLetters[CHOOSE k \in DOMAIN UpperLetters : UpperLetters[k] = c]
    ELSE c

\* "".join(f(i) for i in range(lo, hi + 1)) is computed by halving the range
RECURSIVE LowerRange(_, _, _)
LowerRange(s, lo, hi) ==
    IF lo > hi THEN ""
    ELSE IF lo = hi THEN LowerChar(Char(s, lo))
    ELSE LET mid == (lo + hi) \div 2
         IN  LowerRange(s, lo, mid) \o LowerRange(s, mid + 1, hi)

Lower(s) == LowerRange(s, 1, Len(s))

\* str.strip()
Strip(s) ==
    IF s = "" THEN ""
    ELSE IF ~IsSpace(Char(s, 1)) /\ ~IsSpace(Char(s, Len(s))) THEN s
    ELSE IF \A i \in 1..Len(s) : IsSpace(Char(s, i)) THEN ""
    ELSE LET a == CHOOSE i \in 1..Len(s) :
                    ~IsSpace(Char(s, i)) /\ \A j \in 1..(i - 1) : IsSpace(Char(s, j))
             b == CHOOSE i \in 1..Len(s) :
                    ~IsSpace(Char(s, i)) /\ \A j \in (i + 1)..Len(s) : IsSpace(Char(s, j))
         IN  SubSeq(s, a, b)

\* re.sub(r"\s+", " ", s): every maximal run of whitespace becomes one space
RECURSIVE SubSpaces(_, _, _)
SubSpaces(s, lo, hi) ==
    IF lo > hi THEN ""
    ELSE IF lo = hi
    THEN (IF IsSpace(Char(s, lo))
          THEN (IF lo > 1 /\ IsSpace(Char(s, lo - 1)) THEN "" ELSE " ")
          ELSE Char(s, lo))
    ELSE LET mid == (lo + hi) \div 2
         IN  SubSpaces(s, lo, mid) \o SubSpaces(s, mid + 1, hi)

\* s.startswith(p)
StartsWith(s, p) == Len(p) <= Len(s) /\ SubSeq(s, 1, Len(p)) = p

\* c in s, for a one-character c
Contains(s, c) == \E i \in 1..Len(s) : Char(s, i) = c

\* len(s.split()): the number of maximal runs of non-whitespace
WordCount(s) ==
    Cardinality({i \in 1..Len(s) :
        ~IsSpace(Char(s, i)) /\ (i = 1 \/ IsSpace(Char(s, i - 1)))})

\* ------------------------------------------------------------ normalizer
clean_text(text) == Strip(SubSpaces(text, 1, Len(text)))

\* variant: normalizes and does not cut
enforce_length_uncut(text, max_len) == clean_text(text)

enforce_length(text, max_len) ==
    LET t == clean_text(text) IN SubSeq(t, 1, Min(max_len, Len(t)))

\* ------------------------------------------------------ regex machinery
\* regex \b between s[p] and s[p+1] (positions 0 and Len(s) are the ends)
Boundary(s, p) ==
    (p >= 1 /\ p <= Len(s) /\ IsWord(Char(s, p)))
        # (p + 1 >= 1 /\ p + 1 <= Len(s) /\ IsWord(Char(s, p + 1)))

\* re.compile(r"\b(k1|k2|...)\b", re.I).search(s), every ki a literal
SearchWords(s, kws) ==
    LET t == Lower(s)
    IN  \E kw \in kws : \E i \in 1..(Len(t) - Len(kw) + 1) :
            /\ SubSeq(t, i, i + Len(kw) - 1) = kw
            /\ Boundary(t, i - 1)
            /\ Boundary(t, i + Len(kw) - 1)

\* The other patterns are \b(...)\b around a group: search(s) finds a match
\* iff some substring s[i..j] is in the group's language (a Form operator)
\* with a \b on either side of it.
AllDigits(s) == \A i \in 1..Len(s) : IsDigit(Char(s, i))

\* \d{6,}
FormDigitRun(s) == Len(s) >= 6 /\ AllDigits(s)

\* \d{3}[- ]?\d{3}[- ]?\d{4}
FormGrouped(s) ==
    \E a \in 0..1 : \E b \in 0..1 :
        /\ Len(s) = 10 + a + b
        /\ AllDigits(SubSeq(s, 1, 3))
        /\ a = 1 => Char(s, 4) \in {"-", " "}
        /\ AllDigits(SubSeq(s, 4 + a, 6 + a))
        /\ b = 1 => Char(s, 7 + a) \in {"-", " "}
        /\ AllDigits(SubSeq(s, 7 + a + b, 10 + a + b))

\* \+?\d[\d\-\s]{6,}\d
FormPhoneLike(s) ==
    LET a == IF Len(s) >= 1 /\ Char(s, 1) = "+" THEN 1 ELSE 0
    IN  \E plus \in {0, a} :
            /\ Len(s) >= plus + 8
            /\ IsDigit(Char(s, plus + 1))
            /\ IsDigit(Char(s, Len(s)))
            /\ \A i \in (plus + 2)..(Len(s) - 1) :
                   IsDigit(Char(s, i)) \/ Char(s, i) = "-" \/ IsSpace(Char(s, i))

\* main.py:89  BOOKING_DETAILS_HINT.search(s)
BOOKING_DETAILS_HINT(s) ==
    \E i \in 1..Len(s) : \E j \in i..Len(s) :
        /\ Boundary(s, i - 1)
        /\ Boundary(s, j)
        /\ FormDigitRun(SubSeq(s, i, j)) \/ FormGrouped(SubSeq(s, i, j))

\* main.py:88  PHONE_LIKE.search(s)
PHONE_LIKE(s) ==
    \E i \in 1..Len(s) : \E j \in i..Len(s) :
        /\ Boundary(s, i - 1)
        /\ Boundary(s, j)
        /\ FormPhoneLike(SubSeq(s, i, j))

\* main.py:73
EMERGENCY_KEYWORDS(s) ==
    SearchWords(s, {"911", "emergency", "ambulance", "police", "fire", "danger"})

\* main.py:75
HOURS_QUERY(s) ==
    SearchWords(s, {"open", "close", "hours", "open today", "open now",
                    "available today", "available now"})

\* main.py:76
LOCATION_QUERY(s) ==
    SearchWords(s, {"address", "location", "where are you", "directions"})

\* main.py:79-82
SERVICE_DISCOVERY(s) ==
    SearchWords(s, {"what services", "services do you offer", "what do you offer",
                    "what do you do", "services provided", "service list"})

\* main.py:85
BOOKING_TRIGGER(s) ==
    SearchWords(s, {"book", "booking", "schedule", "appointment", "appt", "reserve"})

\* main.py:92-95
COMPLAINT_KEYWORDS(s) ==
    SearchWords(s, {"refund", "return", "complain", "complaint", "bad", "terrible",
                    "awful", "unhappy", "angry", "upset", "frustrated", "not happy",
                    "issue", "problem", "charged", "scam"})

\* main.py:98-101
RETAIL_INTENT(s) ==
    SearchWords(s, {"do you sell", "do you have", "do u sell", "do u have",
                    "in stock", "available in stock", "carry", "selling"})

\* main.py:104
MONTHS ==
    {"jan", "january", "feb", "february", "mar", "march", "apr", "april", "may",
     "jun", "june", "jul", "july", "aug", "august", "sep", "sept", "september",
     "oct", "october", "nov", "november", "dec", "december"}

\* \d{1,2}(st|nd|rd|th)?
FormDay(s) ==
    \E d \in 1..2 :
        /\ Len(s) >= d
        /\ AllDigits(SubSeq(s, 1, d))
        /\ SubSeq(s, d + 1, Len(s)) \in {"", "st", "nd", "rd", "th"}

\* MONTHS\s*\d{1,2}(st|nd|rd|th)?
FormMonthDay(s) ==
    \E m \in MONTHS :
        /\ StartsWith(s, m)
        /\ \E k \in Len(m)..Len(s) :
              /\ \A i \in (Len(m) + 1)..k : IsSpace(Char(s, i))
              /\ FormDay(SubSeq(s, k + 1, Len(s)))

\* main.py:105-108  DATE_ONLY.search(s), re.I
DATE_ONLY(s) ==
    LET t == Lower(s)
    IN  \E i \in 1..Len(t) : \E j \in i..Len(t) :
            /\ Boundary(t, i - 1)
            /\ Boundary(t, j)
            /\ \/ SubSeq(t, i, j) \in {"tomorrow", "today"}
               \/ FormDay(SubSeq(t, i, j))
               \/ FormMonthDay(SubSeq(t, i, j))

\* \d{1,2}(:\d{2})?\s*(am|pm)
FormClock(s) ==
    \E d \in 1..2 : \E c \in {0, 3} :
        /\ Len(s) >= d + c + 2
        /\ AllDigits(SubSeq(s, 1, d))
        /\ c = 3 => Char(s, d + 1) = ":" /\ AllDigits(SubSeq(s, d + 2, d + 3))
        /\ \A i \in (d + c + 1)..(Len(s) - 2) : IsSpace(Char(s, i))
        /\ SubSeq(s, Len(s) - 1, Len(s)) \in {"am", "pm"}

\* main.py:109  TIME_ONLY.search(s), re.I
TIME_ONLY(s) ==
    LET t == Lower(s)
    IN  \E i \in 1..Len(t) : \E j \in i..Len(t) :
            /\ Boundary(t, i - 1)
            /\ Boundary(t, j)
            /\ \/ SubSeq(t, i, j) \in {"noon", "midnight"}
               \/ FormClock(SubSeq(t, i, j))

\* ------------------------------------------------------ canned replies
\* main.py:39-67
BUSINESS_CONTEXT ==
    [business_name |-> "This business",
     greeting |-> "Hello! How can we assist you today?",
     thanks_reply |-> "You're welcome! Let us know if you need any assistance.",
     short_message_clarify |-> "Could you please share a bit more detail so I can help?",
     hours_unknown_message |-> "I don't have the hours handy right now, but I can check with the owner and get back to you shortly.",
     location_unknown_message |-> "I don't have the address handy right now, but I can check with the owner and follow up shortly.",
     service_discovery_message |-> "We offer a range of services. Could you let me know what you're looking for so I can help further?",
     retail_redirect_message |-> "We don't carry retail products, but I'd be happy to help with our services. What can I assist you with?",
     booking_question_template |-> "To help with your booking request, please provide the service you'd like to book, your name, and the best contact number.",
     booking_details_received |-> "Thanks - got it! I'll pass this to the owner to confirm availability and follow up shortly.",
     handoff_normal |-> "Thanks - got it! I'll pass this to the owner and they'll follow up shortly.",
     handoff_complaint |-> "I'm sorry about that. I'll pass this to the owner so they can follow up with you shortly.",
     emergency_message |-> "If this is an emergency, please contact local emergency services immediately."]

\* ------------------------------------------------------------- helpers
\* main.py:127-132
looks_like_question(text) ==
    LET t == Strip(text)
        tl == Lower(t)
    IN  \/ Contains(t, "?")
        \/ \E p \in {"what", "which", "when", "how", "can you", "could you", "please"} :
               StartsWith(tl, p)

\* main.py:135-136
is_greeting(text) == Lower(clean_text(text)) \in {"hi", "hello", "hey"}

\* main.py:139-140
is_thanks(text) == Lower(clean_text(text)) \in {"thanks", "thank you", "thx", "ty"}

\* re.split(r"[,\s]+", t), empty pieces dropped: the maximal runs of
\* characters that are neither a comma nor whitespace, as <<first, last>>
IsSep(c) == c = "," \/ IsSpace(c)

Tokens(t) ==
    {<<i, j>> \in (1..Len(t)) \X (1..Len(t)) :
        /\ i <= j
        /\ \A k \in i..j : ~IsSep(Char(t, k))
        /\ i = 1 \/ IsSep(Char(t, i - 1))
        /\ j = Len(t) \/ IsSep(Char(t, j + 1))}

\* re.fullmatch(r"[\d\-\+\(\)]+", w)
NumericToken(w) ==
    Len(w) >= 1 /\ \A k \in 1..Len(w) : IsDigit(Char(w, k)) \/ Char(w, k) \in {"-", "+", "(", ")"}

\* main.py:143-163
likely_booking_details(text) ==
    LET t == clean_text(text)
        has_phone == BOOKING_DETAILS_HINT(t) \/ PHONE_LIKE(t)
        non_num == {w \in Tokens(t) : ~NumericToken(SubSeq(t, w[1], w[2]))}
    IN  /\ t # ""
        /\ has_phone
        /\ Cardinality(non_num) >= MinNonNum

\* main.py:166-184
looks_like_date_or_time_only(text) ==
    LET t == Lower(clean_text(text))
    IN  /\ t # ""
        /\ DATE_ONLY(t) \/ TIME_ONLY(t)
        /\ WordCount(t) <= MaxDateWords

\* --------------------------------------------------------------- store
\* Optional[...] None (db.py:101, main.py:273)
None == [none |-> TRUE]

\* ",".join(tags)  (db.py:60); ", ".join(tags)  (main.py:199)
RECURSIVE Join(_, _)
Join(sep, tags) ==
    IF Len(tags) = 0 THEN ""
    ELSE IF Len(tags) = 1 THEN tags[1]
    ELSE tags[1] \o sep \o Join(sep, Tail(tags))

\* s.split(",")
RECURSIVE SplitComma(_, _, _)
SplitComma(s, start, i) ==
    IF i > Len(s) THEN <<SubSeq(s, start, Len(s))>>
    ELSE IF Char(s, i) = "," THEN <<SubSeq(s, start, i - 1)>> \o SplitComma(s, i + 1, i + 1)
    ELSE SplitComma(s, start, i + 1)

\* main.py:276  [t.strip() for t in last_tags_str.split(",") if t.strip()]
RECURSIVE StripAll(_)
StripAll(ps) ==
    IF Len(ps) = 0 THEN <<>>
    ELSE LET t == CHOOSE x \in {Strip(ps[1])} : TRUE
         IN  (IF t = "" THEN <<>> ELSE <<t>>) \o StripAll(Tail(ps))

ParseTags(last_tags_str) == StripAll(SplitComma(last_tags_str, 1, 1))

InSeq(x, seq) == \E k \in DOMAIN seq : seq[k] = x

\* db.py:36-66: INSERT one row; id is AUTOINCREMENT.  ts and to_number are
\* stored as given and read by no rule; they are left out of the row.
log_message(rows, channel, from_number, inbound_text, reply_text, tags, needs_handoff) ==
    Append(rows,
        [id |-> Len(rows) + 1,
         channel |-> channel,
         from_number |-> from_number,
         inbound_text |-> inbound_text,
         reply_text |-> reply_text,
         tags |-> Join(",", tags),
         needs_handoff |-> IF needs_handoff THEN 1 ELSE 0])

\* db.py:87-103: WHERE from_number = ? ORDER BY id DESC LIMIT 1
get_last_message_for_sender(rows, from_number) ==
    LET mine == {k \in DOMAIN rows : rows[k].from_number = from_number}
    IN  IF mine = {} THEN None
        ELSE rows[CHOOSE k \in mine : \A j \in mine : rows[j].id <= rows[k].id]

\* ------------------------------------------------------------- cascade
\* An outcome is the argument list of one reply_and_log call of inbound();
\* via names the rule (the comment label in main.py) that made the call.
Outcome(reply_text, tags, needs_handoff, via) ==
    [reply_text |-> reply_text, tags |-> tags, needs_handoff |-> needs_handoff, via |-> via]

\* variant: the canonical prompt counts only if it reads as a question
last_was_booking_question_only_question(last) ==
    LET last_reply == clean_text(IF last = None THEN "" ELSE last.reply_text)
        last_tags == ParseTags(IF last = None THEN "" ELSE last.tags)
    IN  InSeq("booking", last_tags) /\ looks_like_question(last_reply)

\* main.py:274-280
last_was_booking_question(last) ==
    LET last_reply == clean_text(IF last = None THEN "" ELSE last.reply_text)
        last_tags == ParseTags(IF last = None THEN "" ELSE last.tags)
    IN  /\ InSeq("booking", last_tags)
        /\ \/ last_reply = BUSINESS_CONTEXT.booking_question_template
           \/ looks_like_question(last_reply)

\* main.py:285-355: the deterministic rules, first match wins; via = "J"
\* when none matches and control reaches the LLM fallback
Rules(incoming, last_was_bq) ==
    IF incoming # "" /\ likely_booking_details(incoming)
    THEN Outcome(BUSINESS_CONTEXT.booking_details_received, <<"booking">>, TRUE, "0")
    ELSE IF /\ last_was_bq
            /\ incoming # ""
            /\ BOOKING_DETAILS_HINT(incoming) \/ WordCount(incoming) >= MinFollowupWords
    THEN Outcome(BUSINESS_CONTEXT.booking_details_received, <<"booking">>, TRUE, "A")
    ELSE IF Len(incoming) < ShortLen
    THEN Outcome(BUSINESS_CONTEXT.short_message_clarify, <<"general">>, FALSE, "B")
    ELSE IF is_thanks(incoming)
    THEN Outcome(BUSINESS_CONTEXT.thanks_reply, <<"general">>, FALSE, "C_thanks")
    ELSE IF is_greeting(incoming)
    THEN Outcome(BUSINESS_CONTEXT.greeting, <<"general">>, FALSE, "C_greeting")
    ELSE IF EMERGENCY_KEYWORDS(incoming)
    THEN Outcome(BUSINESS_CONTEXT.emergency_message, <<"emergency">>, TRUE, "D_emergency")
    ELSE IF COMPLAINT_KEYWORDS(incoming)
    THEN Outcome(BUSINESS_CONTEXT.handoff_complaint, <<"complaint">>, TRUE, "D_complaint")
    ELSE IF looks_like_date_or_time_only(incoming)
    THEN Outcome(BUSINESS_CONTEXT.booking_question_template, <<"booking">>, TRUE, "E")
    ELSE IF HOURS_QUERY(incoming)
    THEN Outcome(BUSINESS_CONTEXT.hours_unknown_message, <<"hours">>, TRUE, "F_hours")
    ELSE IF LOCATION_QUERY(incoming)
    THEN Outcome(BUSINESS_CONTEXT.location_unknown_message, <<"location">>, TRUE, "F_location")
    ELSE IF SERVICE_DISCOVERY(incoming)
    THEN Outcome(BUSINESS_CONTEXT.service_discovery_message, <<"service_question">>, FALSE, "G")
    ELSE IF BOOKING_TRIGGER(incoming)
    THEN Outcome(BUSINESS_CONTEXT.booking_question_template, <<"booking">>, TRUE, "H")
    ELSE IF RETAIL_INTENT(incoming)
    THEN Outcome(BUSINESS_CONTEXT.retail_redirect_message, <<"service_question">>, FALSE, "I")
    ELSE Outcome("", <<>>, FALSE, "J")

\* What client.chat.completions.create does (main.py:362-379): it raises,
\* or returns a completion whose message content is None or a text.
LLMRaise == [kind |-> "raise"]
LLMNone == [kind |-> "none"]
LLMText(t) == [kind |-> "text", content |-> t]
NotCalled == [kind |-> "not_called"]

\* variant: a raising model call is treated as an empty answer
LLMFallback_error_as_empty(has_client, incoming, llm) ==
    IF has_client /\ incoming # ""
    THEN LET content == IF llm.kind = "text" THEN llm.content ELSE ""
             c == clean_text(Strip(content))
         IN  Outcome(IF c = "" THEN BUSINESS_CONTEXT.greeting ELSE c,
                     <<"general">>, FALSE, "J_reply")
    ELSE Outcome(BUSINESS_CONTEXT.handoff_normal, <<"other">>, TRUE, "J_no_client")

\* main.py:360-386
LLMFallback(has_client, incoming, llm) ==
    IF has_client /\ incoming # ""
    THEN IF llm.kind = "raise"
         THEN Outcome(BUSINESS_CONTEXT.handoff_normal, <<"other">>, TRUE, "J_error")
         ELSE LET content == IF llm.kind = "text" THEN llm.content ELSE ""
                  c == clean_text(Strip(content))
              IN  Outcome(IF c = "" THEN BUSINESS_CONTEXT.greeting ELSE c,
                          <<"general">>, FALSE, "J_reply")
    ELSE Outcome(BUSINESS_CONTEXT.handoff_normal, <<"other">>, TRUE, "J_no_client")

\* main.py:195
important == {"booking", "hours", "location", "complaint", "emergency"}

\* variant: alerts on every handoff, whatever the tags
send_alert_if_needed_any_handoff(tags, needs_handoff) == needs_handoff

\* main.py:187-216: TRUE iff control reaches the send_handoff_email call
send_alert_if_needed(tags, needs_handoff) ==
    /\ needs_handoff
    /\ \E k \in DOMAIN tags : tags[k] \in important

\* ------------------------------------------------------------- inputs
RECURSIVE Repeat(_, _)
Repeat(s, n) ==
    IF n = 0 THEN ""
    ELSE LET h == Repeat(s, n \div 2)
         IN  h \o h \o (IF n % 2 = 1 THEN s ELSE "")

\* form field From (main.py:267)
Froms == {"whatsapp:+15550001", " whatsapp:+15550002 "}

\* form field Body (main.py:266)
Bodies ==
    {"", "k", "hi", " Hello\t", "thanks", "okay", "I need help",
     "Jane 555-867-5309", "5558675309 Bob", "haircut john 5558675309", "fire john 5558675309",
     "fire", "there is a  fire", "refund",
     "Do you have availability for 12pm tomorrow?", "tomorrow 11am",
     "What services do you offer?", "what services do you offer and when do you open",
     "What are your hours?", "address", "book", "carry"}

\* a reply of 60 five-character words: longer than max_len, with a space
\* as its 240th character
LongReply == Repeat("word ", 60)

LLMOutcomes == {LLMRaise, LLMNone, LLMText(" Sure, how can  we help? "), LLMText(LongReply)}

\* send_handoff_email (emailer.py:7-34) returns, or sg.send raises
MailOutcomes == {"returned", "raised"}

\* ------------------------------------------------------------- handler
LLMCalls == LLMOutcomes \cup {NotCalled}

\* main.py:285-386: the reply_and_log call that inbound() makes
Cascade(incoming, last_was_bq, has_client, llm) ==
    LET det == Rules(incoming, last_was_bq)
    IN  IF det.via = "J" THEN LLMFallback(has_client, incoming, llm) ELSE det

\* main.py:360: does control enter the try block and call the model
CallsLLM(incoming, last_was_bq, has_client) ==
    Rules(incoming, last_was_bq).via = "J" /\ has_client /\ incoming # ""

\* The text processing of one request depends on the form body, on
\* last_was_booking_question, on the configuration and on what the model
\* call does; it is tabulated once over these.
\* main.py:266 (incoming), 285-386 (out), 220 (reply_text), 222 (alert)
Handled ==
    [Body \in Bodies, last_was_bq \in BOOLEAN, has_client \in BOOLEAN, llm \in LLMCalls |->
        LET incoming == clean_text(Body)
            out == Cascade(incoming, last_was_bq, has_client, llm)
        IN  [incoming |-> incoming,
             out |-> out,
             reply_text |-> enforce_length(out.reply_text, MaxLenDefault),
             alert |-> send_alert_if_needed(out.tags, out.needs_handoff)]]

LLMCalled ==
    [Body \in Bodies, last_was_bq \in BOOLEAN, has_client \in BOOLEAN |->
        CallsLLM(clean_text(Body), last_was_bq, has_client)]

\* main.py:219-226 and 263-386: one call of inbound(), start to finish, on a
\* form with fields From and Body.  An exception of send_handoff_email is
\* caught at main.py:215 and changes nothing: both mail outcomes give the
\* same response.
inbound ==
    /\ Len(messages) < MaxMessages
    /\ \E From \in Froms :
       \E from_number \in {clean_text(From)} :
       \E last \in {get_last_message_for_sender(messages, from_number)} :
       \E last_was_bq \in {last_was_booking_question(last)} :
       \E Body \in Bodies :
       \E llm \in (IF LLMCalled[Body, last_was_bq, client] THEN LLMOutcomes ELSE {NotCalled}) :
       \E mail \in MailOutcomes :
       \E h \in {Handled[Body, last_was_bq, client, llm]} :
          /\ messages' = log_message(messages, "whatsapp", from_number, h.incoming,
                                     h.reply_text, h.out.tags, h.out.needs_handoff)
          /\ alerts' = IF h.alert
                       THEN Append(alerts,
                              [subject |-> "[Handoff] " \o BUSINESS_CONTEXT.business_name
                                             \o " - " \o Join(", ", h.out.tags),
                               from_number |-> from_number,
                               incoming |-> h.incoming,
                               reply_text |-> h.reply_text])
                       ELSE alerts
          /\ resp' = [status |-> 200,
                      body |-> h.reply_text,
                      incoming |-> h.incoming,
                      from_number |-> from_number,
                      last |-> last,
                      last_was_bq |-> last_was_bq,
                      llm |-> llm,
                      tags |-> h.out.tags,
                      needs_handoff |-> h.out.needs_handoff,
                      via |-> h.out.via,
                      alerted |-> h.alert]
    /\ UNCHANGED <<client, npc, nx, ny, nz, handlers, served>>

NoResp == [status |-> 0]

\* the slots for inbound() calls in flight, and a slot with no call in it
ConcHandlers == {1, 2}
Idle == [pc |-> "idle"]

Init ==
    /\ client \in BOOLEAN
    /\ messages = <<>>
    /\ alerts = <<>>
    /\ resp = NoResp
    /\ npc = "in"
    /\ nx = ""
    /\ ny = ""
    /\ nz = ""
    /\ handlers = [h \in ConcHandlers |-> Idle]
    /\ served = <<>>

Next == inbound

Spec == Init /\ [][Next]_vars

\* ---------------------------------------------- text normalizer, alone
NormAlphabet == {"a", " ", "\t"}

RECURSIVE TailsOf(_)
TailsOf(k) ==
    IF k = 0 THEN {""}
    ELSE TailsOf(k - 1) \cup {t \o c : t \in TailsOf(k - 1), c \in NormAlphabet}

NormInputs ==
    {Repeat("a", n) \o t :
        n \in {0} \cup ((MaxLenDefault - PadSlack)..MaxLenDefault), t \in TailsOf(MaxTail)}

EnforceOnce ==
    /\ npc = "in"
    /\ ny' = enforce_length(nx, MaxLenDefault)
    /\ npc' = "once"
    /\ UNCHANGED <<client, messages, alerts, resp, nx, nz, handlers, served>>

EnforceTwice ==
    /\ npc = "once"
    /\ nz' = enforce_length(ny, MaxLenDefault)
    /\ npc' = "twice"
    /\ UNCHANGED <<client, messages, alerts, resp, nx, ny, handlers, served>>

InitNorm ==
    /\ client = FALSE
    /\ messages = <<>>
    /\ alerts = <<>>
    /\ resp = NoResp
    /\ npc = "in"
    /\ nx \in NormInputs
    /\ ny = ""
    /\ nz = ""
    /\ handlers = [h \in ConcHandlers |-> Idle]
    /\ served = <<>>

NextNorm == EnforceOnce \/ EnforceTwice

SpecNorm == InitNorm /\ [][NextNorm]_vars


\* ------------------------------------------- handlers run concurrently
\* inbound() is a coroutine with one await, request.form() (main.py:265);
\* from there to its return it runs without yielding.  Calls served by one
\* worker process (one event loop) therefore run their lookback and their
\* reply_and_log back to back; calls served by different worker processes
\* share only the file app.db (db.py:4, a connection per call, db.py:7-10)
\* and interleave freely.  How many workers serve the app is not fixed by
\* the source: every assignment of calls to workers is considered.
ConcWorkers == {1, 2}

ConcFroms == {"whatsapp:+15550001"}

ConcBodies ==
    {"book", "I need help", "Jane 555-867-5309", "okay", "there is a  fire", "tomorrow 11am"}

ConcLLMOutcomes == {LLMRaise, LLMText(" Sure, how can  we help? ")}

\* main.py:285-355 on a form body: the label of the rule that decides
RuleOf ==
    [Body \in Bodies, last_was_bq \in BOOLEAN |-> Rules(clean_text(Body), last_was_bq).via]

\* main.py:263-270: a request reaches a worker, the form is awaited and read
Receive(h) ==
    /\ handlers[h].pc = "idle"
    /\ Len(messages) + Cardinality({g \in ConcHandlers : handlers[g].pc # "idle"})
          < MaxConcMessages
    /\ \E w \in ConcWorkers : \E From \in ConcFroms : \E Body \in ConcBodies :
          handlers' = [handlers EXCEPT ![h] =
              [pc |-> "received", worker |-> w,
               from_number |-> clean_text(From), Body |-> Body]]
    /\ UNCHANGED <<client, messages, alerts, resp, npc, nx, ny, nz, served>>

\* main.py:273-280: the lookback.  A call does not start its synchronous
\* part while another call of the same worker is inside its own.
Lookback(h) ==
    /\ handlers[h].pc = "received"
    /\ \A g \in ConcHandlers \ {h} :
          handlers[g].pc = "looked" => handlers[g].worker # handlers[h].worker
    /\ \E last \in {get_last_message_for_sender(messages, handlers[h].from_number)} :
          handlers' = [handlers EXCEPT ![h] =
              [pc |-> "looked", worker |-> handlers[h].worker,
               from_number |-> handlers[h].from_number, Body |-> handlers[h].Body,
               seen |-> IF last = None THEN 0 ELSE last.id,
               last_was_bq |-> last_was_booking_question(last)]]
    /\ UNCHANGED <<client, messages, alerts, resp, npc, nx, ny, nz, served>>

\* main.py:285-386 and 219-226: the cascade, then reply_and_log
Reply(h) ==
    /\ handlers[h].pc = "looked"
    /\ \E hd \in {handlers[h]} :
       \E llm \in (IF LLMCalled[hd.Body, hd.last_was_bq, client]
                   THEN ConcLLMOutcomes ELSE {NotCalled}) :
       \E mail \in MailOutcomes :
       \E r \in {Handled[hd.Body, hd.last_was_bq, client, llm]} :
          /\ messages' = log_message(messages, "whatsapp", hd.from_number, r.incoming,
                                     r.reply_text, r.out.tags, r.out.needs_handoff)
          /\ alerts' = IF r.alert
                       THEN Append(alerts,
                              [subject |-> "[Handoff] " \o BUSINESS_CONTEXT.business_name
                                             \o " - " \o Join(", ", r.out.tags),
                               from_number |-> hd.from_number,
                               incoming |-> r.incoming,
                               reply_text |-> r.reply_text])
                       ELSE alerts
          /\ resp' = [status |-> 200,
                      body |-> r.reply_text,
                      incoming |-> r.incoming,
                      from_number |-> hd.from_number,
                      last |-> hd.seen,
                      last_was_bq |-> hd.last_was_bq,
                      llm |-> llm,
                      tags |-> r.out.tags,
                      needs_handoff |-> r.out.needs_handoff,
                      via |-> r.out.via,
                      alerted |-> r.alert]
          /\ served' = Append(served,
                          [Body |-> hd.Body, worker |-> hd.worker, seen |-> hd.seen,
                           last_was_bq |-> hd.last_was_bq, llm |-> llm])
    /\ handlers' = [handlers EXCEPT ![h] = Idle]
    /\ UNCHANGED <<client, npc, nx, ny, nz>>

NextConc ==
    \/ \E h \in ConcHandlers : Receive(h)
    \/ \E h \in ConcHandlers : Lookback(h)
    \/ \E h \in ConcHandlers : Reply(h)

SpecConc == Init /\ [][NextConc]_vars

\* ============================================================== claims
Answered == resp.status = 200

IsFallback(via) == via \in {"J_reply", "J_error", "J_no_client"}

\* a row of the store, as the exchange it records
TagsOf(row) == ParseTags(row.tags)

\* the row of the same sender that precedes row n, 0 if there is none
PrevOf(n) ==
    LET mine == {k \in 1..(n - 1) : messages[k].from_number = messages[n].from_number}
    IN  IF mine = {} THEN 0 ELSE CHOOSE k \in mine : \A j \in mine : j <= k

\* vocabulary of the claims that no rule of main.py implements
\* "asks about availability"
AsksAvailability(t) == SearchWords(t, {"availability", "available"})

\* spec 4.3 BookingDetailsProvided: a phone-number-like token (7+ digits in
\* a row, or 3-3-4 digits) and an alphabetic token of length >= 2
AlphaToken(t, w) ==
    w[2] - w[1] >= 1 /\ \A k \in w[1]..w[2] : Char(t, k) \in Letter

BookingDetailsProvided(t) ==
    /\ \E i \in 1..Len(t) : \E j \in i..Len(t) :
          \/ j - i >= 6 /\ AllDigits(SubSeq(t, i, j))
          \/ FormGrouped(SubSeq(t, i, j))
    /\ \E w \in Tokens(t) : AlphaToken(t, w)

\* spec 4.3 BookingPartial: two distinct alphabetic tokens, a numeric token
\* of 3 to 5 digits, and no run of 7 or more digits
BookingPartial(t) ==
    /\ Cardinality({SubSeq(t, w[1], w[2]) : w \in {v \in Tokens(t) : AlphaToken(t, v)}}) >= 2
    /\ \E w \in Tokens(t) : w[2] - w[1] \in 2..4 /\ AllDigits(SubSeq(t, w[1], w[2]))
    /\ ~\E i \in 1..Len(t) : i + 6 <= Len(t) /\ AllDigits(SubSeq(t, i, i + 6))

\* the message matches one of rules 1-8 of the cascade as the spec lists
\* them, by the spec's matcher or by the matcher main.py has for the rule
Rules1to8(t) ==
    \/ likely_booking_details(t) \/ BookingDetailsProvided(t)
    \/ BookingPartial(t)
    \/ Len(t) < ShortLen
    \/ is_thanks(t)
    \/ is_greeting(t)
    \/ EMERGENCY_KEYWORDS(t)
    \/ COMPLAINT_KEYWORDS(t)
    \/ looks_like_date_or_time_only(t)

\* ... or one of rules 9-13
Rules9to13(t) ==
    \/ SERVICE_DISCOVERY(t)
    \/ AsksAvailability(t) /\ (DATE_ONLY(t) \/ TIME_ONLY(t))
    \/ HOURS_QUERY(t)
    \/ LOCATION_QUERY(t)
    \/ BOOKING_TRIGGER(t)

\* "a name and a phone-number-like token": two words, one alphabetic, the
\* other a phone number in one of the shapes of main.py:88-89
PhoneToken(w) == FormDigitRun(w) \/ FormGrouped(w) \/ FormPhoneLike(w)
NameToken(w) == Len(w) >= 2 /\ \A k \in 1..Len(w) : Char(w, k) \in Letter

NameAndPhone(t) ==
    \E i \in 2..(Len(t) - 1) :
        /\ Char(t, i) = " "
        /\ \/ NameToken(SubSeq(t, 1, i - 1)) /\ PhoneToken(SubSeq(t, i + 1, Len(t)))
           \/ PhoneToken(SubSeq(t, 1, i - 1)) /\ NameToken(SubSeq(t, i + 1, Len(t)))

\* C1: every inbound message that contains an emergency keyword is answered
\* with "emergency" as first tag and needs_handoff, whatever else it
\* contains and whatever the sender's previous exchange was.
C1_EmergencyAlwaysFirst ==
    (Answered /\ EMERGENCY_KEYWORDS(resp.incoming)) =>
        /\ Len(resp.tags) >= 1
        /\ resp.tags[1] = "emergency"
        /\ resp.needs_handoff

\* C2: a message that asks about availability and names a date or a time,
\* from a sender with no open booking question, gets the booking question
\* with tags = ["booking"] and needs_handoff; never the retail reply or the
\* generative fallback.
C2_AvailabilityIsBooking ==
    (/\ Answered
     /\ ~resp.last_was_bq
     /\ AsksAvailability(resp.incoming)
     /\ DATE_ONLY(resp.incoming) \/ TIME_ONLY(resp.incoming))
    =>  /\ resp.body = BUSINESS_CONTEXT.booking_question_template
        /\ resp.tags = <<"booking">>
        /\ resp.needs_handoff
        /\ resp.via # "I" /\ ~IsFallback(resp.via)

\* C3: a message whose normalized, lowercased text is "hi", "hello" or
\* "hey" gets the greeting reply with tags = ["general"] and no handoff.
C3_GreetingReply ==
    (Answered /\ Lower(resp.incoming) \in {"hi", "hello", "hey"}) =>
        /\ resp.body = BUSINESS_CONTEXT.greeting
        /\ resp.tags = <<"general">>
        /\ ~resp.needs_handoff

\* C4: enforce_length is idempotent: enforce_length(enforce_length(x)) =
\* enforce_length(x) for every text x.
C4_EnforceLengthIdempotent == npc = "twice" => nz = ny

\* C5: a service-discovery message that matches none of rules 1-8 gets
\* tags = ["service_question"] and no handoff, whatever else it contains
\* and whatever the sender's previous exchange was.
C5_ServiceDiscoveryWins ==
    (/\ Answered
     /\ SERVICE_DISCOVERY(resp.incoming)
     /\ ~Rules1to8(resp.incoming))
    =>  /\ resp.tags = <<"service_question">>
        /\ ~resp.needs_handoff

\* C6: when the sender's most recent logged exchange has tags = ["booking"]
\* and the canonical booking prompt as reply, a next message of that sender
\* made of a name and a phone number is answered booking_details_received
\* with tags = ["booking"] and needs_handoff, and is logged so.
C6_TwoTurnBooking ==
    \A n \in DOMAIN messages :
        LET p == PrevOf(n)
        IN  (/\ p > 0
             /\ TagsOf(messages[p]) = <<"booking">>
             /\ messages[p].reply_text = BUSINESS_CONTEXT.booking_question_template
             /\ NameAndPhone(messages[n].inbound_text))
            =>  /\ messages[n].reply_text = BUSINESS_CONTEXT.booking_details_received
                /\ TagsOf(messages[n]) = <<"booking">>
                /\ messages[n].needs_handoff = 1
                /\ n = Len(messages) =>
                      /\ resp.body = BUSINESS_CONTEXT.booking_details_received
                      /\ resp.tags = <<"booking">>
                      /\ resp.needs_handoff

C6_Witness ==
    /\ Len(messages) = 2
    /\ PrevOf(2) = 1
    /\ messages[1].reply_text = BUSINESS_CONTEXT.booking_question_template
    /\ TagsOf(messages[1]) = <<"booking">>
    /\ NameAndPhone(messages[2].inbound_text)
    /\ ~likely_booking_details(messages[2].inbound_text)
    /\ resp.body = BUSINESS_CONTEXT.booking_details_received

\* C7: when the generative-model call raises, the handler still returns:
\* the default handoff reply, tags = ["other"], needs_handoff, and that
\* exchange is the row just logged.
C7_FallbackFailureIsHandoff ==
    (resp # NoResp /\ resp.llm = LLMRaise) =>
        /\ resp.status = 200
        /\ resp.body = BUSINESS_CONTEXT.handoff_normal
        /\ resp.tags = <<"other">>
        /\ resp.needs_handoff
        /\ Len(messages) >= 1
        /\ LET row == messages[Len(messages)]
           IN  /\ row.from_number = resp.from_number
               /\ row.inbound_text = resp.incoming
               /\ row.reply_text = BUSINESS_CONTEXT.handoff_normal
               /\ TagsOf(row) = <<"other">>
               /\ row.needs_handoff = 1

C7_Witness ==
    /\ resp # NoResp
    /\ resp.llm = LLMRaise
    /\ resp.via = "J_error"
    /\ Len(messages) = 2

\* C8: the alert notifier is called for an exchange iff needs_handoff is
\* true and the first tag is booking, hours, location, complaint or
\* emergency: the calls made are exactly those exchanges, in order, and
\* none is made for tags ["general"] or ["other"].
Alertable(row) ==
    /\ row.needs_handoff = 1
    /\ \E tg \in {TagsOf(row)} : tg # <<>> /\ tg[1] \in important

AlertKey(r) == <<r.from_number, r.inbound_text, r.reply_text>>

C8_AlertIffImportantHandoff ==
    /\ Answered =>
          (resp.alerted <=> (resp.needs_handoff /\ resp.tags[1] \in important))
    /\ LET due == SelectSeq(messages, Alertable)
       IN  /\ Len(alerts) = Len(due)
           /\ \A k \in DOMAIN alerts :
                 <<alerts[k].from_number, alerts[k].incoming, alerts[k].reply_text>>
                     = AlertKey(due[k])
    /\ \A k \in DOMAIN messages : \A tg \in {TagsOf(messages[k])} :
          (tg # <<>> /\ tg[1] \in {"general", "other"}) =>
              ~\E a \in DOMAIN alerts :
                  <<alerts[a].from_number, alerts[a].incoming, alerts[a].reply_text>>
                      = AlertKey(messages[k])

C8_Witness ==
    /\ Len(messages) = 2
    /\ TagsOf(messages[1]) = <<"other">>
    /\ messages[1].needs_handoff = 1
    /\ TagsOf(messages[2]) = <<"emergency">>
    /\ Len(alerts) = 1
    /\ resp.alerted

\* C9: every logged exchange has a non-empty tag list drawn from the closed
\* vocabulary and a reply_text that is non-empty and at most 240 long.
TagVocabulary ==
    {"booking", "general", "emergency", "complaint", "hours", "location",
     "service_question", "other"}

C9_RowsWellFormed ==
    \A k \in DOMAIN messages : \A tg \in {TagsOf(messages[k])} :
        /\ tg # <<>>
        /\ \A i \in DOMAIN tg : tg[i] \in TagVocabulary
        /\ messages[k].reply_text # ""
        /\ Len(messages[k].reply_text) <= MaxLenDefault

C9_Witness ==
    /\ Len(messages) = 2
    /\ Len(messages[1].reply_text) = MaxLenDefault
    /\ resp.llm = LLMNone
    /\ messages[2].reply_text = BUSINESS_CONTEXT.greeting

\* C10: when the sender's most recent exchange is an open booking request
\* and the new message matches none of rules 1-13, the reply is
\* booking_details_received if the message gives booking details and the
\* booking question again otherwise, with tags = ["booking"] and
\* needs_handoff; never the retail reply or the generative fallback.
C10_OpenBookingNeverDropped ==
    (/\ Answered
     /\ resp.last_was_bq
     /\ ~Rules1to8(resp.incoming)
     /\ ~Rules9to13(resp.incoming))
    =>  /\ resp.body = IF BookingDetailsProvided(resp.incoming)
                       THEN BUSINESS_CONTEXT.booking_details_received
                       ELSE BUSINESS_CONTEXT.booking_question_template
        /\ resp.tags = <<"booking">>
        /\ resp.needs_handoff
        /\ resp.via # "I" /\ ~IsFallback(resp.via)

\* C11: for two inbound messages of the same sender handled concurrently
\* (both look back before either appends), the outcomes are those of
\* handling the two one after the other, in one order or the other, except
\* that the later one may be a re-issue of the booking question; both rows
\* are appended intact and each call returns its reply.
IdOf(k) == IF k = 0 THEN 0 ELSE messages[k].id

\* rows m and n of one sender, n next after m, whose calls both looked back
\* at the store as it was before m was appended
RacedPair(m, n) ==
    /\ m = PrevOf(n)
    /\ served[m].seen = IdOf(PrevOf(m))
    /\ served[n].seen = served[m].seen

\* the rule that decided row k, and the rule that decides its message when
\* the lookback finds row j
Ruled(k) == RuleOf[served[k].Body, served[k].last_was_bq]
SerialRule(k, j) == RuleOf[served[k].Body, last_was_booking_question(messages[j])]

IsReask(row) ==
    /\ row.reply_text = BUSINESS_CONTEXT.booking_question_template
    /\ TagsOf(row) = <<"booking">>
    /\ row.needs_handoff = 1

\* row b is what handling its message after row a gives, or a re-ask
AsSerial(a, b) == Ruled(b) = SerialRule(b, a) \/ IsReask(messages[b])

RowsIntact ==
    /\ Len(served) = Len(messages)
    /\ \A k \in DOMAIN messages :
          \E r \in {Handled[served[k].Body, served[k].last_was_bq, client, served[k].llm]} :
             /\ messages[k].id = k
             /\ messages[k].inbound_text = r.incoming
             /\ messages[k].reply_text = r.reply_text
             /\ TagsOf(messages[k]) = r.out.tags
             /\ messages[k].needs_handoff = (IF r.out.needs_handoff THEN 1 ELSE 0)

C11_RaceCostsAtMostOneReask ==
    /\ RowsIntact
    /\ \A n \in DOMAIN messages : \A m \in 1..(n - 1) :
          RacedPair(m, n) => (AsSerial(m, n) \/ AsSerial(n, m))

====
